---- MODULE Spec2Model ----
(***************************************************************************)
(* Model of stock-pipeline-starter/main.py: the daily scan.                *)
(*   main:  load_tickers -> fetch_prices -> compute_signals ->             *)
(*          export_reports -> send_email, with no exception handler: an    *)
(*          exception raised by any of the five steps ends the run.        *)
(* The fetched dataset is a pandas DataFrame: one shared date index and    *)
(* one column per (ticker, field) in the multi-ticker shape, one column    *)
(* per field in the single-ticker shape.  Numbers are kept exact:          *)
(* a rolling mean is the pair sum/window, a rounded percentage is an       *)
(* integer number of hundredths of a percent, a rounded price an integer   *)
(* number of 1e-4 units.  On the small integer inputs used here the float  *)
(* sums, quotients and comparisons of pandas are exact, and no percentage  *)
(* falls on a rounding tie.  A date is its position in the index.          *)
(***************************************************************************)
EXTENDS Integers, Sequences, FiniteSets, TLC

VARIABLES pc, tickers, data, df, err, reports, email

vars == <<pc, tickers, data, df, err, reports, email>>

----------------------------------------------------------------------------
(* Bounds of the input space *)

\* number of dates in the fetched index
NumDates == 61
\* largest close value of the latest bar
MaxClose == 4
\* largest volume value of the latest bar
MaxVol == 4

(* Program constants *)

\* len(close) < 50
MinBars == 50
\* close.rolling(5)
ShortWin == 5
\* close.rolling(20), vol.rolling(20)
MidWin == 20
\* close.rolling(60)
LongWin == 60
\* 1.5 * vol20, as the fraction SpikeNum / SpikeDen
SpikeNum == 3
SpikeDen == 2
\* round(today_px, 4)
PriceDigits == 4
\* round(dchg, 2), round(trend60, 2)
PctDigits == 2

\* a missing value of a column (float NaN); every present value is >= 0
NaN == 0 - 1

\* ticker symbols, listed in ascending string order
Symbols == <<"AAA", "BBB">>

\* the placeholder symbol of the single-ticker shape
SINGLE == "SINGLE"

Dates == 1..NumDates

----------------------------------------------------------------------------
(* Arithmetic helpers *)

RECURSIVE Pow10(_)
Pow10(n) == IF n = 0 THEN 1 ELSE 10 * Pow10(n - 1)

\* round(num/den, 0) with den > 0, ties to the even neighbour (Python round)
RoundHalfEven(num, den) ==
    LET q == num \div den
        r == num - q * den
    IN  IF 2 * r < den THEN q
        ELSE IF 2 * r > den THEN q + 1
        ELSE IF q % 2 = 0 THEN q ELSE q + 1

\* round(num/den, digits), in units of 10^-digits
Round(num, den, digits) == RoundHalfEven(num * Pow10(digits), den)

----------------------------------------------------------------------------
(* Series: Series.dropna, Series.rolling(w).mean, Series.iloc *)

\* col.dropna(): the bars of the column whose value is present, by date
DropNa(col) ==
    SelectSeq([d \in Dates |-> [date |-> d, val |-> col[d]]],
              LAMBDA b : b.val # NaN)

RECURSIVE SumVals(_, _, _)
SumVals(s, lo, hi) ==
    IF lo > hi THEN 0 ELSE s[hi].val + SumVals(s, lo, hi - 1)

\* s.rolling(w).mean() at position i (1-based): <<>> is NaN, else <<sum, w>>
RollingMean(s, w, i) ==
    IF i < w THEN <<>> ELSE <<SumVals(s, i - w + 1, i), w>>

IsNan(m) == m = <<>>

\* a < b and a > b on floats: False when either side is NaN
Less(a, b) ==
    IF IsNan(a) \/ IsNan(b) THEN FALSE ELSE a[1] * b[2] < b[1] * a[2]

Greater(a, b) ==
    IF IsNan(a) \/ IsNan(b) THEN FALSE ELSE a[1] * b[2] > b[1] * a[2]

----------------------------------------------------------------------------
(* compute_signals: the body of the loop for one ticker *)

\* data[(t, 'Close')] / data['Close']
CloseColumn(d, t) ==
    IF d.is_multi THEN d.cols[<<t, "Close">>] ELSE d.cols["Close"]

\* mutation of VolumeColumn: the single-ticker branch reads the Close field
VolumeColumnSingleReadsClose(d, t) ==
    IF d.is_multi THEN d.cols[<<t, "Volume">>] ELSE d.cols["Close"]

\* data[(t, 'Volume')] / data['Volume']
VolumeColumn(d, t) ==
    IF d.is_multi THEN d.cols[<<t, "Volume">>] ELSE d.cols["Volume"]

\* ma_cross: ma5[-2] < ma20[-2] and ma5[-1] > ma20[-1]
MaCross(close) ==
    LET n == Len(close)
    IN  /\ Less(RollingMean(close, ShortWin, n - 1), RollingMean(close, MidWin, n - 1))
        /\ Greater(RollingMean(close, ShortWin, n), RollingMean(close, MidWin, n))

\* mutation of VolSpike: >= in place of >
VolSpikeAtOrAbove(vol) ==
    LET n   == Len(vol)
        v20 == RollingMean(vol, MidWin, n)
    IN  IF IsNan(v20) THEN FALSE
        ELSE vol[n].val * SpikeDen * v20[2] >= SpikeNum * v20[1]

\* vol_spike: vol[-1] > 1.5 * vol20[-1] if vol20[-1] is not NaN else 0
VolSpike(vol) ==
    LET n   == Len(vol)
        v20 == RollingMean(vol, MidWin, n)
    IN  IF IsNan(v20) THEN FALSE
        ELSE vol[n].val * SpikeDen * v20[2] > SpikeNum * v20[1]

\* round((close[-1] / close[-2] - 1) * 100, 2), None when NaN
DayChange(close) ==
    LET n == Len(close)
    IN  IF n > 1
        THEN <<Round((close[n].val - close[n - 1].val) * 100, close[n - 1].val, PctDigits)>>
        ELSE <<>>

\* round((today_px / ma60[-1] - 1) * 100, 2), None when ma60[-1] is NaN
Trend60(close) ==
    LET n   == Len(close)
        m60 == RollingMean(close, LongWin, n)
    IN  IF IsNan(m60) THEN <<>>
        ELSE <<Round((close[n].val * m60[2] - m60[1]) * 100, m60[1], PctDigits)>>

\* the dict appended to rows
SignalRow(t, close, vol) ==
    [ticker            |-> t,
     date              |-> close[Len(close)].date,
     price             |-> Round(close[Len(close)].val, 1, PriceDigits),
     d_change          |-> DayChange(close),
     golden_cross_5_20 |-> MaCross(close),
     vol_spike_vs_20d  |-> VolSpike(vol),
     above_ma60        |-> Trend60(close)]

----------------------------------------------------------------------------
(* compute_signals: universe, loop and sort *)

\* the set of tickers with a Close column, or {'SINGLE'}
Universe(d) ==
    IF d.is_multi
    THEN {c[1] : c \in {k \in DOMAIN d.cols : k[2] = "Close"}}
    ELSE {SINGLE}

\* mutation of SortedUniverse: the symbols in descending order
DescendingUniverse(d) ==
    IF d.is_multi
    THEN LET asc == SelectSeq(Symbols, LAMBDA t : t \in Universe(d))
         IN  [i \in 1..Len(asc) |-> asc[Len(asc) + 1 - i]]
    ELSE <<SINGLE>>

\* sorted(set(universe))
SortedUniverse(d) ==
    IF d.is_multi
    THEN SelectSeq(Symbols, LAMBDA t : t \in Universe(d))
    ELSE <<SINGLE>>

\* the for loop over the tickers todo, rows collected so far;
\* vol20.iloc[-1] raises IndexError on an empty volume series
RECURSIVE Loop(_, _, _)
Loop(d, todo, rows) ==
    IF todo = <<>> THEN [err |-> "none", rows |-> rows]
    ELSE LET t     == Head(todo)
             close == DropNa(CloseColumn(d, t))
             vol   == DropNa(VolumeColumn(d, t))
         IN  IF Len(close) < MinBars THEN Loop(d, Tail(todo), rows)
             ELSE IF Len(vol) = 0 THEN [err |-> "IndexError", rows |-> rows]
             ELSE Loop(d, Tail(todo), Append(rows, SignalRow(t, close, vol)))

\* one sort key, descending, NaN last: -1 a first, 1 b first, 0 tie
CmpBool(a, b) == IF a = b THEN 0 ELSE IF a THEN 0 - 1 ELSE 1

CmpOpt(a, b) ==
    IF a = <<>> /\ b = <<>> THEN 0
    ELSE IF a = <<>> THEN 1
    ELSE IF b = <<>> THEN 0 - 1
    ELSE IF a[1] > b[1] THEN 0 - 1
    ELSE IF a[1] < b[1] THEN 1 ELSE 0

\* mutation of Before: vol_spike_vs_20d takes priority over golden_cross_5_20
BeforeSpikeFirst(a, b) ==
    LET k1 == CmpBool(a.vol_spike_vs_20d, b.vol_spike_vs_20d)
        k2 == CmpBool(a.golden_cross_5_20, b.golden_cross_5_20)
        k3 == CmpOpt(a.above_ma60, b.above_ma60)
        k4 == CmpOpt(a.d_change, b.d_change)
    IN  IF k1 # 0 THEN k1 < 0
        ELSE IF k2 # 0 THEN k2 < 0
        ELSE IF k3 # 0 THEN k3 < 0
        ELSE k4 < 0

\* a sorts strictly before b under
\* ["golden_cross_5_20","vol_spike_vs_20d","above_ma60_%","d_change_%"], all descending
Before(a, b) ==
    LET k1 == CmpBool(a.golden_cross_5_20, b.golden_cross_5_20)
        k2 == CmpBool(a.vol_spike_vs_20d, b.vol_spike_vs_20d)
        k3 == CmpOpt(a.above_ma60, b.above_ma60)
        k4 == CmpOpt(a.d_change, b.d_change)
    IN  IF k1 # 0 THEN k1 < 0
        ELSE IF k2 # 0 THEN k2 < 0
        ELSE IF k3 # 0 THEN k3 < 0
        ELSE k4 < 0

\* r put into the sorted sequence s before the first row it strictly precedes
Insert(r, s) ==
    LET firstAfter == {i \in 1..Len(s) : Before(r, s[i])}
        p == IF firstAfter = {} THEN Len(s) + 1
             ELSE CHOOSE i \in firstAfter : \A j \in firstAfter : i <= j
    IN  SubSeq(s, 1, p - 1) \o <<r>> \o SubSeq(s, p, Len(s))

\* DataFrame.sort_values on several columns: a stable sort (np.lexsort)
RECURSIVE SortValues(_)
SortValues(rows) ==
    IF rows = <<>> THEN <<>>
    ELSE Insert(rows[Len(rows)], SortValues(SubSeq(rows, 1, Len(rows) - 1)))

\* the whole function: pd.DataFrame([]) has no columns, so sort_values
\* raises KeyError when no row was collected
ComputeSignals(d) ==
    LET l == Loop(d, SortedUniverse(d), <<>>)
    IN  IF l.err # "none" THEN [err |-> l.err, df |-> <<>>]
        ELSE IF l.rows = <<>> THEN [err |-> "KeyError", df |-> <<>>]
        ELSE [err |-> "none", df |-> SortValues(l.rows)]

----------------------------------------------------------------------------
(* The fetched datasets: what fetch_prices may hand to compute_signals *)

\* dates at the start of the index on which a ticker has no bar yet:
\* a full history, or a history of exactly MinBars dates (MinBars - 1
\* close values when the latest close is missing too)
Leads == {0, NumDates - MinBars}

\* volume present on every bar of the history, only on the two latest
\* dates, or on no date at all
VolKinds == {"full", "recent", "none"}

Profiles ==
    [lead : Leads, close : (1..MaxClose) \cup {NaN},
     vkind : VolKinds, volume : (1..MaxVol) \cup {NaN}]

\* flat at 2 with a dip to 1 on the day before the latest date
BaseValue(d) == IF d = NumDates - 1 THEN 1 ELSE 2

CloseOf(p) ==
    [d \in Dates |-> IF d <= p.lead THEN NaN
                     ELSE IF d = NumDates THEN p.close
                     ELSE BaseValue(d)]

VolumeOf(p) ==
    [d \in Dates |-> IF p.vkind = "none" \/ d <= p.lead THEN NaN
                     ELSE IF p.vkind = "recent" /\ d < NumDates - 1 THEN NaN
                     ELSE IF d = NumDates THEN p.volume
                     ELSE BaseValue(d)]

SymbolSet == {Symbols[i] : i \in DOMAIN Symbols}

\* group_by='ticker' with several tickers: columns (ticker, field)
MultiDataset(f) ==
    [is_multi |-> TRUE,
     cols |-> [k \in (DOMAIN f) \X {"Close", "Volume"} |->
                 IF k[2] = "Close" THEN CloseOf(f[k[1]]) ELSE VolumeOf(f[k[1]])]]

\* one ticker: columns are the fields
SingleDataset(p) ==
    [is_multi |-> FALSE,
     cols |-> [k \in {"Close", "Volume"} |->
                 IF k = "Close" THEN CloseOf(p) ELSE VolumeOf(p)]]

\* the lists load_tickers may return: the symbols of the non-blank,
\* non-comment lines of tickers.txt in file order, duplicates kept; here
\* every list of at most Len(Symbols) symbols
TickerLists ==
    UNION {[1..n -> SymbolSet] : n \in 0..Len(Symbols)}

\* what yf.download may return for the list tk: a column pair per distinct
\* requested ticker, or, for a single distinct ticker, possibly the
\* single-ticker shape
DatasetsFor(tk) ==
    LET S == {tk[i] : i \in DOMAIN tk}
    IN  {MultiDataset(f) : f \in [S -> Profiles]}
        \cup (IF Cardinality(S) = 1 THEN {SingleDataset(p) : p \in Profiles} ELSE {})

----------------------------------------------------------------------------
(* main *)

ComputeErrors == {"IndexError", "KeyError"}

Init ==
    /\ pc = "load"
    /\ tickers = <<>>
    /\ data = [is_multi |-> TRUE, cols |-> <<>>]
    /\ df = <<>>
    /\ err = "none"
    /\ reports = FALSE
    /\ email = "none"

\* tickers = load_tickers()
LoadTickers ==
    /\ pc = "load"
    /\ \E tk \in TickerLists : tickers' = tk
    /\ pc' = "fetch"
    /\ UNCHANGED <<data, df, err, reports, email>>

\* load_tickers raises (tickers.txt is missing); main has no handler
LoadTickersRaise ==
    /\ pc = "load"
    /\ err' = "FileNotFoundError"
    /\ pc' = "failed"
    /\ UNCHANGED <<tickers, data, df, reports, email>>

\* data = fetch_prices(tickers)
FetchPrices ==
    /\ pc = "fetch"
    /\ \E d \in DatasetsFor(tickers) : data' = d
    /\ pc' = "compute"
    /\ UNCHANGED <<tickers, df, err, reports, email>>

\* fetch_prices raises (yf.download fails); main has no handler
FetchPricesRaise ==
    /\ pc = "fetch"
    /\ err' = "DownloadError"
    /\ pc' = "failed"
    /\ UNCHANGED <<tickers, data, df, reports, email>>

\* df = compute_signals(data) returns
ComputeReturn ==
    /\ pc = "compute"
    /\ LET r == ComputeSignals(data)
       IN  /\ r.err = "none"
           /\ df' = r.df
    /\ pc' = "export"
    /\ UNCHANGED <<tickers, data, err, reports, email>>

\* compute_signals(data) raises; main has no handler
ComputeRaise ==
    /\ pc = "compute"
    /\ LET r == ComputeSignals(data)
       IN  /\ r.err # "none"
           /\ err' = r.err
    /\ pc' = "failed"
    /\ UNCHANGED <<tickers, data, df, reports, email>>

\* csv_path, html_path = export_reports(df)
ExportReports ==
    /\ pc = "export"
    /\ reports' = TRUE
    /\ pc' = "email"
    /\ UNCHANGED <<tickers, data, df, err, email>>

\* export_reports raises (makedirs, to_csv or open fails); main has no handler
ExportRaise ==
    /\ pc = "export"
    /\ err' = "OSError"
    /\ pc' = "failed"
    /\ UNCHANGED <<tickers, data, df, reports, email>>

\* send_email with SMTP_USER, SMTP_PASS or SMTP_TO unset: warn and return False
SendEmailSkip ==
    /\ pc = "email"
    /\ email' = "skipped"
    /\ pc' = "done"
    /\ UNCHANGED <<tickers, data, df, err, reports>>

\* send_email delivers the message
SendEmailOk ==
    /\ pc = "email"
    /\ email' = "sent"
    /\ pc' = "done"
    /\ UNCHANGED <<tickers, data, df, err, reports>>

\* send_email raises (SMTP_PORT not a number, attachment read, connect,
\* starttls, login, sendmail)
SendEmailRaise ==
    /\ pc = "email"
    /\ email' = "failed"
    /\ err' = "SMTPError"
    /\ pc' = "failed"
    /\ UNCHANGED <<tickers, data, df, reports>>

Next ==
    \/ LoadTickers
    \/ LoadTickersRaise
    \/ FetchPrices
    \/ FetchPricesRaise
    \/ ComputeReturn
    \/ ComputeRaise
    \/ ExportReports
    \/ ExportRaise
    \/ SendEmailSkip
    \/ SendEmailOk
    \/ SendEmailRaise

Spec == Init /\ [][Next]_vars

----------------------------------------------------------------------------
(* Vocabulary of the properties *)

\* compute_signals has returned its table df
Returned == pc \in {"export", "email", "done"} \/ err \in {"OSError", "SMTPError"}

\* compute_signals has ended, by a return or by an exception
Ended == Returned \/ err \in ComputeErrors

\* the bars of a ticker on which both close and volume are present
UsableDates(d, t) ==
    {i \in Dates : CloseColumn(d, t)[i] # NaN /\ VolumeColumn(d, t)[i] # NaN}

ClosesOf(t) == DropNa(CloseColumn(data, t))

VolumesOf(t) == DropNa(VolumeColumn(data, t))

\* the sum of the w values of s that end at position i
WindowSum(s, w, i) == SumVals(s, i - w + 1, i)

\* position of a symbol in ascending symbol order
SymbolRank(t) == CHOOSE i \in DOMAIN Symbols : Symbols[i] = t

\* x is a present value above the optional value y (absent is lowest)
OptAbove(x, y) == x # <<>> /\ (y = <<>> \/ x[1] > y[1])

BoolAbove(x, y) == x /\ ~y

SameKeys(a, b) ==
    /\ a.golden_cross_5_20 = b.golden_cross_5_20
    /\ a.vol_spike_vs_20d = b.vol_spike_vs_20d
    /\ a.above_ma60 = b.above_ma60
    /\ a.d_change = b.d_change

\* a >= b in the lexicographic order on the four sort keys
KeysAtLeast(a, b) ==
    \/ BoolAbove(a.golden_cross_5_20, b.golden_cross_5_20)
    \/ /\ a.golden_cross_5_20 = b.golden_cross_5_20
       /\ \/ BoolAbove(a.vol_spike_vs_20d, b.vol_spike_vs_20d)
          \/ /\ a.vol_spike_vs_20d = b.vol_spike_vs_20d
             /\ \/ OptAbove(a.above_ma60, b.above_ma60)
                \/ /\ a.above_ma60 = b.above_ma60
                   /\ \/ OptAbove(a.d_change, b.d_change)
                      \/ a.d_change = b.d_change

----------------------------------------------------------------------------
(* C1 *)

\* C1: every record of the table belongs to a ticker with at least 50
\* usable bars (bars with both close and volume present); a ticker with
\* fewer usable bars gets no record.
C1_NoRecordBelow50Usable ==
    \A i \in DOMAIN df : Cardinality(UsableDates(data, df[i].ticker)) >= MinBars

----------------------------------------------------------------------------
(* C2 *)

\* C2: for every record, golden_cross_5_20 is true iff ma5 < ma20 at the
\* second-to-last bar and ma5 >= ma20 at the last bar (true in particular
\* when the two averages are equal on the last bar).
C2_CrossAtOrAbove ==
    \A i \in DOMAIN df :
        LET c == ClosesOf(df[i].ticker)
            n == Len(c)
        IN  df[i].golden_cross_5_20 <=>
              /\ MidWin * WindowSum(c, ShortWin, n - 1) < ShortWin * WindowSum(c, MidWin, n - 1)
              /\ MidWin * WindowSum(c, ShortWin, n) >= ShortWin * WindowSum(c, MidWin, n)

----------------------------------------------------------------------------
(* C3 *)

\* the latest volume of ticker t is exactly 1.5 times its 20-bar average
AtSpikeBoundary(t) ==
    LET v == VolumesOf(t)
        n == Len(v)
    IN  n >= MidWin /\ 2 * MidWin * v[n].val = 3 * WindowSum(v, MidWin, n)

\* C3: for every record, vol_spike_vs_20d is a boolean, true iff the
\* 20-bar average volume at the latest volume bar is defined and the
\* latest volume is strictly greater than 1.5 times that average.
C3_VolSpikeStrict ==
    \A i \in DOMAIN df :
        LET v == VolumesOf(df[i].ticker)
            n == Len(v)
        IN  /\ df[i].vol_spike_vs_20d \in BOOLEAN
            /\ df[i].vol_spike_vs_20d <=>
                 (n >= MidWin /\ 2 * MidWin * v[n].val > 3 * WindowSum(v, MidWin, n))

\* a table with a record at exactly the 1.5x boundary (no spike) and a
\* record whose 20-bar average is undefined (no spike)
C3_Witness ==
    /\ Returned
    /\ \E i \in DOMAIN df : AtSpikeBoundary(df[i].ticker) /\ ~df[i].vol_spike_vs_20d
    /\ \E i \in DOMAIN df :
          Len(VolumesOf(df[i].ticker)) < MidWin /\ ~df[i].vol_spike_vs_20d

----------------------------------------------------------------------------
(* C4 *)

\* C4: in the returned table every earlier record is >= every later one in
\* the descending lexicographic order on (golden_cross_5_20,
\* vol_spike_vs_20d, above_ma60_pct, day_change_pct), absent being lowest.
C4_SortedByKeys ==
    \A i, j \in DOMAIN df : i < j => KeysAtLeast(df[i], df[j])

\* the sort moved a record with cross and no spike ahead of a record of a
\* smaller symbol with spike and no cross
C4_Witness ==
    /\ Returned
    /\ Len(df) = 2
    /\ df[1].golden_cross_5_20 /\ ~df[1].vol_spike_vs_20d
    /\ ~df[2].golden_cross_5_20 /\ df[2].vol_spike_vs_20d
    /\ SymbolRank(df[2].ticker) < SymbolRank(df[1].ticker)

----------------------------------------------------------------------------
(* C5 *)

\* C5: two records of the table that are equal on all four sort keys
\* appear in ascending order of ticker symbol.
C5_TiesBySymbol ==
    \A i, j \in DOMAIN df :
        (i < j /\ SameKeys(df[i], df[j])) =>
            SymbolRank(df[i].ticker) < SymbolRank(df[j].ticker)

\* a table with two records that tie on all four keys
C5_Witness ==
    /\ Returned
    /\ Len(df) = 2
    /\ SameKeys(df[1], df[2])
    /\ df[1].ticker # df[2].ticker

----------------------------------------------------------------------------
(* C6 *)

\* no ticker of the dataset has 50 close values
NoneQualifies ==
    \A t \in Universe(data) : Len(ClosesOf(t)) < MinBars

\* C6: when no ticker qualifies, compute_signals returns an empty table
\* without raising, and the run reaches the export step.
C6_EmptyTableNoError ==
    (Ended /\ NoneQualifies) => (Returned /\ err \notin ComputeErrors /\ df = <<>>)

----------------------------------------------------------------------------
(* C7 *)

\* C7: a failed notification leaves the reports written, and a failed
\* export still lets the notification be attempted.
C7_ExportAndNotifyIndependent ==
    /\ email = "failed" => reports
    /\ err = "OSError" => email # "none"

----------------------------------------------------------------------------
(* C8 *)

\* ticker t has at least 50 close values and no volume value at all
BadTicker(t) == Len(ClosesOf(t)) >= MinBars /\ Len(VolumesOf(t)) = 0

\* C8: a ticker with 50 close values and no volume never makes
\* compute_signals fail; it alone is left out and every other ticker with
\* 50 close values has its record in the table.
C8_BadTickerOnlyExcluded ==
    (Ended /\ \E t \in Universe(data) : BadTicker(t)) =>
        /\ err \notin ComputeErrors
        /\ \A t \in Universe(data) :
              (Len(ClosesOf(t)) >= MinBars /\ ~BadTicker(t)) =>
                  \E i \in DOMAIN df : df[i].ticker = t

----------------------------------------------------------------------------
(* C10 *)

\* C10: for every record, the latest volume bar (the one that decides
\* vol_spike_vs_20d) has the date reported in the record, which is the
\* date of the close reported as price.
C10_VolumeAndCloseSameDate ==
    \A i \in DOMAIN df :
        LET v == VolumesOf(df[i].ticker)
        IN  v[Len(v)].date = df[i].date

----------------------------------------------------------------------------
(* C9 *)

\* the multi-ticker dataset that holds the series of the single-ticker
\* dataset d under the symbol t
AsMulti(d, t) ==
    [is_multi |-> TRUE,
     cols |-> [k \in {t} \X {"Close", "Volume"} |-> d.cols[k[2]]]]

\* the six fields of a record other than ticker
Content(r) ==
    <<r.date, r.price, r.d_change, r.golden_cross_5_20, r.vol_spike_vs_20d, r.above_ma60>>

====
